---- MODULE Spec2Model ----
(***************************************************************************)
(* Model of scripts/m3u_merger.py: the line parser parse_single_m3u and    *)
(* the multi-source merge of main().                                       *)
(*                                                                         *)
(* A line of text is a sequence of tokens.  A token is either one          *)
(* character ("," " " "\r" "A" "1" ...) or one of the fixed prefixes the   *)
(* program tests with str.startswith ("#EXTM3U", "#EXTINF:", "http://",    *)
(* "https://").  A text is read one raw line at a time: the raw lines are  *)
(* the pieces between the "\n" characters of the file.                     *)
(***************************************************************************)
EXTENDS Integers, Sequences, FiniteSets, TLC

\* ------------------------------------------------------------------ bounds
\* raw lines read in one run, over all the source files
MaxLines == 5
\* source files given with -i
MaxSources == 3
\* channels of the accumulator and of the incoming source in SpecFold
MaxAccLen == 2
MaxFoldLen == 5
\* lines of the text of one call of the parser in SpecParse and SpecEndings
MaxTextLines == 5
\* lines safe_write_output is given to write in SpecWrite
MaxOutLines == 2

\* ------------------------------------------------------------- text helpers
\* the characters str.strip() removes
Whitespace == {" ", "\t", "\r", "\n"}

RECURSIVE LStrip(_)
LStrip(s) == IF s # <<>> /\ Head(s) \in Whitespace THEN LStrip(Tail(s)) ELSE s

RECURSIVE RStrip(_)
RStrip(s) ==
    IF s # <<>> /\ s[Len(s)] \in Whitespace THEN RStrip(SubSeq(s, 1, Len(s) - 1)) ELSE s

\* str.strip()
Strip(s) == RStrip(LStrip(s))

\* str.startswith(prefix), prefix being one token
StartsWith(line, prefix) == line # <<>> /\ line[1] = prefix

\* Python's None and the empty string: both are false in `if name:`
None == <<>>

\* re.search(r',(.+)$', line): the leftmost comma that has at least one
\* character after it; group(1) runs from there to the end of the line
MatchGroup(line) ==
    LET commas == {i \in 1..Len(line) : line[i] = "," /\ i < Len(line)}
    IN  IF commas = {} THEN None
        ELSE LET i == CHOOSE j \in commas : \A k \in commas : j <= k
             IN  SubSeq(line, i + 1, Len(line))

\* lines 29-33: the channel name of a metadata line, None when no match
ChannelName(line) == Strip(MatchGroup(line))

\* the set of elements of a sequence
Range(s) == {s[i] : i \in 1..Len(s)}

\* list.insert(i, x) for 0 <= i <= len(list), i counted from 0
ListInsert(s, i, x) == SubSeq(s, 1, i) \o <<x>> \o SubSeq(s, i + 1, Len(s))

\* list.index(x), counted from 0
ListIndex(s, x) == (CHOOSE i \in 1..Len(s) : s[i] = x /\ \A j \in 1..(i - 1) : s[j] # x) - 1

\* a dict with one more key, or one key rebound
DictSet(d, k, v) == [x \in DOMAIN d \cup {k} |-> IF x = k THEN v ELSE d[x]]

EmptyDict == [x \in {} |-> 0]

\* --------------------------------------------------------------- the parser
\* lines 14-19: the parser's locals before the first line
ParserInit ==
    [channels_map |-> EmptyDict, order_list |-> <<>>, header |-> None,
     current_channel_name |-> None]

\* lines 22-25: a header line; only the first one is kept
ParseHeader(p, line) ==
    [p EXCEPT !.header = IF p.header = None THEN line ELSE p.header]

\* ParseRecord without the test of line 36: a repeated name is appended again
ParseRecordReappend(p, line, name) ==
    [p EXCEPT !.channels_map =
                  DictSet(p.channels_map, name,
                          [info |-> line,
                           urls |-> IF name \in DOMAIN p.channels_map
                                    THEN p.channels_map[name].urls ELSE {}]),
              !.order_list = Append(p.order_list, name)]

\* ParseRecord building a fresh record for a repeated name too
ParseRecordResetUrls(p, line, name) ==
    [p EXCEPT !.channels_map = DictSet(p.channels_map, name, [info |-> line, urls |-> {}]),
              !.order_list = IF name \in DOMAIN p.channels_map
                             THEN p.order_list ELSE Append(p.order_list, name)]

\* lines 35-41: the record of a named metadata line
ParseRecord(p, line, name) ==
    IF name \notin DOMAIN p.channels_map
    THEN [p EXCEPT !.channels_map = DictSet(p.channels_map, name, [info |-> line, urls |-> {}]),
                   !.order_list = Append(p.order_list, name)]
    ELSE [p EXCEPT !.channels_map = DictSet(p.channels_map, name,
                                            [info |-> line, urls |-> p.channels_map[name].urls])]

\* lines 27-41: a metadata line
ParseExtinf(p, line) ==
    LET name == ChannelName(line)
        q == [p EXCEPT !.current_channel_name = name]
    IN  IF name # None THEN ParseRecord(q, line, name) ELSE q

\* lines 43-45: a stream URL line
ParseUrl(p, line) ==
    LET name == p.current_channel_name
    IN  IF name # None /\ name \in DOMAIN p.channels_map
        THEN [p EXCEPT !.channels_map =
                 DictSet(p.channels_map, name,
                         [info |-> p.channels_map[name].info,
                          urls |-> p.channels_map[name].urls \cup {line}])]
        ELSE p

\* ParseOther leaving the channel context as it is
ParseOtherKeeps(p, line) == p

\* lines 47-48: any other line resets the channel context
ParseOther(p, line) == [p EXCEPT !.current_channel_name = None]

\* lines 12, 21-48: one raw line; a line that is blank once stripped was
\* filtered out before the loop
ParseRawLine(p, raw) ==
    LET line == Strip(raw)
    IN  IF line = <<>> THEN p
        ELSE IF StartsWith(line, "#EXTM3U") THEN ParseHeader(p, line)
        ELSE IF StartsWith(line, "#EXTINF:") THEN ParseExtinf(p, line)
        ELSE IF StartsWith(line, "http://") \/ StartsWith(line, "https://") THEN ParseUrl(p, line)
        ELSE ParseOther(p, line)

\* lines 7-50: the whole parser on a text given as its raw lines
RECURSIVE ParseFrom(_, _)
ParseFrom(p, raws) == IF raws = <<>> THEN p ELSE ParseFrom(ParseRawLine(p, Head(raws)), Tail(raws))

parse_single_m3u(raws) == ParseFrom(ParserInit, raws)

\* str.split('\n') of a text
RECURSIVE SplitLines(_)
SplitLines(text) ==
    LET breaks == {i \in 1..Len(text) : text[i] = "\n"}
    IN  IF breaks = {} THEN <<text>>
        ELSE LET i == CHOOSE j \in breaks : \A k \in breaks : j <= k
             IN  <<SubSeq(text, 1, i - 1)>> \o SplitLines(SubSeq(text, i + 1, Len(text)))

\* lines 8-12, 21-48: the parser on a text; the lines of the stripped text go
\* through ParseRawLine, which strips each and drops the blank ones
ParseContent(m3u_content) ==
    IF m3u_content = <<>> THEN ParserInit
    ELSE parse_single_m3u(SplitLines(Strip(m3u_content)))

\* lines 9, 50: what the parser returns
Returned(p) == [order_list |-> p.order_list, channels_map |-> p.channels_map, header |-> p.header]

\* --------------------------------------------------------------- the merger
RECURSIVE Reverse(_)
Reverse(s) == IF s = <<>> THEN <<>> ELSE Reverse(Tail(s)) \o <<Head(s)>>

\* SeedOrder putting each channel in front of the earlier ones
SeedOrderReversed(temp_order_list) == Reverse(temp_order_list)

\* lines 80-84: the first source seeds the accumulator
SeedHeader(header) == header

SeedOrder(temp_order_list) == <<>> \o temp_order_list

SeedMap(temp_map) == temp_map

\* FoldHeader taking a later header when there is none yet
FoldHeaderFallThrough(final_header, header) ==
    IF final_header = None THEN header ELSE final_header

\* line 104: the header of a later source is discarded
FoldHeader(final_header, header) == final_header

\* InitialAnchor pointing at the last channel when the source knows none
InitialAnchorAtEnd(final_order_list, current_map) ==
    LET known == {i \in 1..Len(final_order_list) : final_order_list[i] \in DOMAIN current_map}
    IN  IF known = {} THEN Len(final_order_list) - 1
        ELSE (CHOOSE i \in known : \A j \in known : j <= i) - 1

\* lines 106-111: the index (from 0) of the last channel of the final order
\* that the incoming source knows, -1 when there is none
InitialAnchor(final_order_list, current_map) ==
    LET known == {i \in 1..Len(final_order_list) : final_order_list[i] \in DOMAIN current_map}
    IN  IF known = {} THEN -1
        ELSE (CHOOSE i \in known : \A j \in known : j <= i) - 1

\* IsKnown taking a channel without URLs for an unknown one
IsKnownWithUrls(final_channels_map, channel_name) ==
    /\ channel_name \in DOMAIN final_channels_map
    /\ final_channels_map[channel_name].urls # {}

\* line 116: is the incoming channel already in the accumulator
IsKnown(final_channels_map, channel_name) == channel_name \in DOMAIN final_channels_map

\* MergeRecord keeping the first info line
MergeRecordKeepInfo(old, new) == [info |-> old.info, urls |-> old.urls \cup new.urls]

\* MergeRecord replacing the URL set
MergeRecordReplaceUrls(old, new) == [info |-> new.info, urls |-> new.urls]

\* lines 120-123: an existing record takes the incoming info and gains its URLs
MergeRecord(old, new) == [info |-> new.info, urls |-> old.urls \cup new.urls]

\* FoldKnown moving the channel to the end of the order
FoldKnownMoves(acc, current_map, channel_name) ==
    LET i == ListIndex(acc.final_order_list, channel_name)
        moved == SubSeq(acc.final_order_list, 1, i)
                 \o SubSeq(acc.final_order_list, i + 2, Len(acc.final_order_list))
                 \o <<channel_name>>
    IN  [final_channels_map |->
             DictSet(acc.final_channels_map, channel_name,
                     [info |-> current_map[channel_name].info,
                      urls |-> acc.final_channels_map[channel_name].urls
                               \cup current_map[channel_name].urls]),
         final_order_list |-> moved,
         last_known_channel_index |-> Len(moved) - 1]

\* lines 116-126: a channel the accumulator already has
FoldKnown(acc, current_map, channel_name) ==
    [final_channels_map |->
         DictSet(acc.final_channels_map, channel_name,
                 MergeRecord(acc.final_channels_map[channel_name], current_map[channel_name])),
     final_order_list |-> acc.final_order_list,
     last_known_channel_index |-> ListIndex(acc.final_order_list, channel_name)]

\* line 135: where a new channel goes
InsertIndex(last_known_channel_index) == last_known_channel_index + 1

\* FoldNew without the insertion of line 136
FoldNewMapOnly(acc, current_map, channel_name) ==
    [final_channels_map |->
         DictSet(acc.final_channels_map, channel_name, current_map[channel_name]),
     final_order_list |-> acc.final_order_list,
     last_known_channel_index |-> InsertIndex(acc.last_known_channel_index)]

\* FoldNew without the cursor update of line 139
FoldNewNoAdvance(acc, current_map, channel_name) ==
    [final_channels_map |->
         DictSet(acc.final_channels_map, channel_name, current_map[channel_name]),
     final_order_list |->
         ListInsert(acc.final_order_list, InsertIndex(acc.last_known_channel_index),
                    channel_name),
     last_known_channel_index |-> acc.last_known_channel_index]

\* lines 128-139: a channel new to the accumulator
FoldNew(acc, current_map, channel_name) ==
    LET insert_index == InsertIndex(acc.last_known_channel_index)
    IN  [final_channels_map |->
             DictSet(acc.final_channels_map, channel_name, current_map[channel_name]),
         final_order_list |-> ListInsert(acc.final_order_list, insert_index, channel_name),
         last_known_channel_index |-> insert_index]

\* lines 114-139: one iteration of the fold loop
FoldStep(acc, current_map, channel_name) ==
    IF IsKnown(acc.final_channels_map, channel_name)
    THEN FoldKnown(acc, current_map, channel_name)
    ELSE FoldNew(acc, current_map, channel_name)

\* ------------------------------------------------------------ serialization
\* the tokens in ascending order of their text
TokenOrder ==
    <<"\t", "\n", "\r", " ", "#EXTINF:", "#EXTM3U", ",", "1", "2", "3",
      "A", "B", "C", "D", "X", "Y", "Z", "http://", "https://">>

TokenRank(t) == CHOOSE i \in 1..Len(TokenOrder) : TokenOrder[i] = t

\* a < b as Python compares two str
RECURSIVE StrLess(_, _)
StrLess(a, b) ==
    IF b = <<>> THEN FALSE
    ELSE IF a = <<>> THEN TRUE
    ELSE IF Head(a) = Head(b) THEN StrLess(Tail(a), Tail(b))
    ELSE TokenRank(Head(a)) < TokenRank(Head(b))

\* sorted() putting the greatest first
RECURSIVE SortedDescending(_)
SortedDescending(urls) ==
    IF urls = {} THEN <<>>
    ELSE LET greatest == CHOOSE u \in urls : \A v \in urls \ {u} : StrLess(v, u)
         IN  <<greatest>> \o SortedDescending(urls \ {greatest})

\* sorted(list(urls))
RECURSIVE Sorted(_)
Sorted(urls) ==
    IF urls = {} THEN <<>>
    ELSE LET least == CHOOSE u \in urls : \A v \in urls \ {u} : StrLess(u, v)
         IN  <<least>> \o Sorted(urls \ {least})

\* lines 148-153: the lines of the channels from position i of the order on
RECURSIVE ChannelLines(_, _, _)
ChannelLines(final_order_list, final_channels_map, i) ==
    IF i > Len(final_order_list) THEN <<>>
    ELSE LET name == final_order_list[i]
             own == IF name \in DOMAIN final_channels_map
                    THEN <<final_channels_map[name].info>> \o Sorted(final_channels_map[name].urls)
                    ELSE <<>>
         IN  own \o ChannelLines(final_order_list, final_channels_map, i + 1)

\* line 146: the header line, when there is one
HeaderLines(final_header) == IF final_header # None THEN <<final_header>> ELSE <<>>

\* lines 146-153: output_lines
Serialize(final_header, final_order_list, final_channels_map) ==
    HeaderLines(final_header) \o ChannelLines(final_order_list, final_channels_map, 1)

\* -------------------------------------------------------------------- state
VARIABLES
    pc,                        \* where main() is
    src,                       \* which of args.input is being handled, from 1
    nread,                     \* raw lines consumed so far, over all the files
    channels_map,              \* parse_single_m3u: channels_map / current_map
    order_list,                \* parse_single_m3u: order_list / current_order_list
    header,                    \* parse_single_m3u: header
    current_channel_name,      \* parse_single_m3u: current_channel_name
    final_channels_map,        \* main: final_channels_map
    final_order_list,          \* main: final_order_list
    final_header,              \* main: final_header
    last_known_channel_index,  \* main: last_known_channel_index
    pos,                       \* main: position of the loop of line 114, from 1
    output_lines,              \* main: output_lines
    seen_info,                 \* history: identity -> last metadata line read for it
    attributed,                \* history: identity -> URLs the parser attributed to it
    first_seen,                \* history: identities of this file, in order of first appearance
    first_header,              \* history: first header line of the first file
    order_before,              \* history: final_order_list when the current fold began
    folded,                    \* history: number of files parsed and merged
    comm,                      \* the merges compared by SpecComm and SpecRefold
    lines_read,                \* SpecParse: the raw lines the parser has taken, in order
    parser_before,             \* SpecParse: the parser's locals before the last line
    endings,                   \* SpecParse: the parses of the text under each line ending
    fs                         \* SpecWrite: safe_write_output and the files it touches

parserVars == <<channels_map, order_list, header, current_channel_name>>
finalVars == <<final_channels_map, final_order_list, final_header>>
historyVars == <<seen_info, attributed, first_seen, first_header, order_before, folded>>
auxVars == <<lines_read, parser_before, endings, fs>>
vars ==
    <<pc, src, nread, parserVars, finalVars, last_known_channel_index, pos,
      output_lines, historyVars, comm, auxVars>>

\* the parser's locals as one record
Parser ==
    [channels_map |-> channels_map, order_list |-> order_list, header |-> header,
     current_channel_name |-> current_channel_name]

\* the accumulator and the cursor as one record
Acc ==
    [final_channels_map |-> final_channels_map, final_order_list |-> final_order_list,
     last_known_channel_index |-> last_known_channel_index]

\* the raw lines a source file is made of
HeaderLine == <<"#EXTM3U">>
InfoA1 == <<"#EXTINF:", "1", ",", "A">>
InfoA2 == <<"#EXTINF:", "2", ",", "A">>
InfoB == <<" ", "#EXTINF:", "1", ",", " ", "B", "\r">>
InfoCD == <<"#EXTINF:", "1", ",", "C", ",", "D">>
Url1 == <<"http://", "1">>
Url2 == <<"https://", "2", "\r">>
Junk == <<"X">>
Blank == <<" ", "\r">>

RawLines ==
    {HeaderLine, InfoA1, InfoA2, InfoB, InfoCD, Url1, Url2, Junk, Blank}

\* the variables of the other specifications, at rest
AuxInit ==
    /\ lines_read = <<>>
    /\ parser_before = ParserInit
    /\ endings = <<>>
    /\ fs = <<>>

Init ==
    /\ pc = "open"
    /\ src = 1
    /\ nread = 0
    /\ channels_map = EmptyDict
    /\ order_list = <<>>
    /\ header = None
    /\ current_channel_name = None
    /\ final_channels_map = EmptyDict
    /\ final_order_list = <<>>
    /\ final_header = None
    /\ last_known_channel_index = -1
    /\ pos = 1
    /\ output_lines = <<>>
    /\ seen_info = EmptyDict
    /\ attributed = EmptyDict
    /\ first_seen = <<>>
    /\ first_header = None
    /\ order_before = <<>>
    /\ folded = 0
    /\ comm = <<>>
    /\ AuxInit

\* ------------------------------------------------------------------ actions
\* lines 77-78, 101-102, 8-19: the file is opened and the parser starts
Open ==
    /\ pc = "open"
    /\ pc' = "parse"
    /\ channels_map' = ParserInit.channels_map
    /\ order_list' = ParserInit.order_list
    /\ header' = ParserInit.header
    /\ current_channel_name' = ParserInit.current_channel_name
    /\ first_seen' = <<>>
    /\ UNCHANGED <<src, nread, finalVars, last_known_channel_index, pos, output_lines,
                   seen_info, attributed, first_header, order_before, folded, comm, auxVars>>

\* lines 92-98: a later file that is missing, or is the output file, is skipped
SkipSource ==
    /\ pc = "open"
    /\ src > 1
    /\ pc' = "next"
    /\ UNCHANGED <<src, nread, parserVars, finalVars, last_known_channel_index, pos,
                   output_lines, historyVars, comm, auxVars>>

\* the history of one raw line: what was read, whatever the parser made of it
SeenInfoAfter(raw) ==
    LET line == Strip(raw)
        name == ChannelName(line)
    IN  IF StartsWith(line, "#EXTINF:") /\ name # None
        THEN DictSet(seen_info, name, line)
        ELSE seen_info

AttributedAfter(p, raw) ==
    LET line == Strip(raw)
        name == p.current_channel_name
    IN  IF (StartsWith(line, "http://") \/ StartsWith(line, "https://")) /\ name # None
        THEN DictSet(attributed, name,
                     (IF name \in DOMAIN attributed THEN attributed[name] ELSE {}) \cup {line})
        ELSE IF StartsWith(line, "#EXTINF:") /\ ChannelName(line) # None
                  /\ ChannelName(line) \notin DOMAIN attributed
        THEN DictSet(attributed, ChannelName(line), {})
        ELSE attributed

FirstSeenAfter(raw) ==
    LET line == Strip(raw)
        name == ChannelName(line)
    IN  IF StartsWith(line, "#EXTINF:") /\ name # None /\ name \notin Range(first_seen)
        THEN Append(first_seen, name)
        ELSE first_seen

FirstHeaderAfter(raw) ==
    LET line == Strip(raw)
    IN  IF src = 1 /\ first_header = None /\ StartsWith(line, "#EXTM3U")
        THEN line
        ELSE first_header

\* lines 12, 21-48: the parser takes the next raw line of the file
ParseLine ==
    /\ pc = "parse"
    /\ nread < MaxLines
    /\ \E raw \in RawLines :
          LET q == ParseRawLine(Parser, raw)
          IN  /\ channels_map' = q.channels_map
              /\ order_list' = q.order_list
              /\ header' = q.header
              /\ current_channel_name' = q.current_channel_name
              /\ seen_info' = SeenInfoAfter(raw)
              /\ attributed' = AttributedAfter(Parser, raw)
              /\ first_seen' = FirstSeenAfter(raw)
              /\ first_header' = FirstHeaderAfter(raw)
    /\ nread' = nread + 1
    /\ UNCHANGED <<pc, src, finalVars, last_known_channel_index, pos, output_lines,
                   order_before, folded, comm, auxVars>>

\* lines 50, 80-84: the first file is parsed; its result seeds the accumulator
Seed ==
    /\ pc = "parse"
    /\ src = 1
    /\ final_header' = SeedHeader(header)
    /\ final_order_list' = SeedOrder(order_list)
    /\ final_channels_map' = SeedMap(channels_map)
    /\ folded' = folded + 1
    /\ pc' = "next"
    /\ UNCHANGED <<src, nread, parserVars, last_known_channel_index, pos, output_lines,
                   seen_info, attributed, first_seen, first_header, order_before, comm, auxVars>>

\* lines 50, 104-111: a later file is parsed; the anchor is computed
Anchor ==
    /\ pc = "parse"
    /\ src > 1
    /\ final_header' = FoldHeader(final_header, header)
    /\ last_known_channel_index' = InitialAnchor(final_order_list, channels_map)
    /\ pos' = 1
    /\ order_before' = final_order_list
    /\ pc' = "fold"
    /\ UNCHANGED <<src, nread, parserVars, final_channels_map, final_order_list,
                   output_lines, seen_info, attributed, first_seen, first_header,
                   folded, comm, auxVars>>

\* lines 114-139: one channel of the incoming file is folded in
FoldChannel ==
    /\ pc = "fold"
    /\ pos <= Len(order_list)
    /\ LET a == FoldStep(Acc, channels_map, order_list[pos])
       IN  /\ final_channels_map' = a.final_channels_map
           /\ final_order_list' = a.final_order_list
           /\ last_known_channel_index' = a.last_known_channel_index
    /\ pos' = pos + 1
    /\ UNCHANGED <<pc, src, nread, parserVars, final_header, output_lines, historyVars, comm, auxVars>>

\* line 114: the loop over the incoming channels ends
FoldDone ==
    /\ pc = "fold"
    /\ pos > Len(order_list)
    /\ folded' = folded + 1
    /\ pc' = "next"
    /\ UNCHANGED <<src, nread, parserVars, finalVars, last_known_channel_index, pos,
                   output_lines, seen_info, attributed, first_seen, first_header,
                   order_before, comm, auxVars>>

\* line 91: the next file of args.input
NextSource ==
    /\ pc = "next"
    /\ src < MaxSources
    /\ src' = src + 1
    /\ pc' = "open"
    /\ UNCHANGED <<nread, parserVars, finalVars, last_known_channel_index, pos,
                   output_lines, historyVars, comm, auxVars>>

\* lines 146-159: args.input is exhausted; the result is written
Write ==
    /\ pc = "next"
    /\ output_lines' = Serialize(final_header, final_order_list, final_channels_map)
    /\ pc' = "done"
    /\ UNCHANGED <<src, nread, parserVars, finalVars, last_known_channel_index, pos,
                   historyVars, comm, auxVars>>

Next ==
    \/ Open
    \/ SkipSource
    \/ ParseLine
    \/ Seed
    \/ Anchor
    \/ FoldChannel
    \/ FoldDone
    \/ NextSource
    \/ Write

Spec == Init /\ [][Next]_vars

\* ------------------------------------------------- the fold on larger orders
\* SpecFold starts where main() is once a first file of plain channels was
\* parsed and seeded and a second file of plain channels was parsed (line 104),
\* and runs the fold and the write from there.
FoldNames == {"A", "B", "X", "Y", "Z"}

\* the sequences without repetition of at most n elements of S
RECURSIVE DistinctSeqs(_, _)
DistinctSeqs(S, n) ==
    IF n = 0 THEN {<<>>}
    ELSE LET shorter == DistinctSeqs(S, n - 1)
             longer == UNION {{Append(s, x) : x \in S \ Range(s)} : s \in shorter}
         IN  shorter \cup longer

\* the file that lists the channels of `names`, one metadata line each
RECURSIVE PlainText(_)
PlainText(names) ==
    IF names = <<>> THEN <<>>
    ELSE <<<<"#EXTINF:", "1", ",", Head(names)>>>> \o PlainText(Tail(names))

InitFold ==
    \E accNames \in DistinctSeqs(FoldNames, MaxAccLen), curNames \in DistinctSeqs(FoldNames, MaxFoldLen) :
        LET first == parse_single_m3u(PlainText(accNames))
            second == parse_single_m3u(PlainText(curNames))
        IN  /\ pc = "parse"
            /\ src = 2
            /\ nread = 0
            /\ channels_map = second.channels_map
            /\ order_list = second.order_list
            /\ header = second.header
            /\ current_channel_name = second.current_channel_name
            /\ final_channels_map = SeedMap(first.channels_map)
            /\ final_order_list = SeedOrder(first.order_list)
            /\ final_header = SeedHeader(first.header)
            /\ last_known_channel_index = -1
            /\ pos = 1
            /\ output_lines = <<>>
            /\ seen_info = [n \in DOMAIN first.channels_map \cup DOMAIN second.channels_map |->
                               <<"#EXTINF:", "1", ",", n[1]>>]
            /\ attributed = [n \in DOMAIN first.channels_map \cup DOMAIN second.channels_map |-> {}]
            /\ first_seen = second.order_list
            /\ first_header = None
            /\ order_before = <<>>
            /\ folded = 1
            /\ comm = <<>>
            /\ AuxInit

NextFold ==
    \/ Anchor
    \/ FoldChannel
    \/ FoldDone
    \/ Write

SpecFold == InitFold /\ [][NextFold]_vars

\* ------------------------------------------- merging two files in both orders
\* lines 104-139: a whole parsed file folded into the accumulator, from the
\* i-th channel of its order on
RECURSIVE FoldFrom(_, _, _, _)
FoldFrom(acc, current_order_list, current_map, i) ==
    IF i > Len(current_order_list) THEN acc
    ELSE FoldFrom(FoldStep(acc, current_map, current_order_list[i]),
                  current_order_list, current_map, i + 1)

\* lines 80-139: main() on two parsed files, up to the write
MergeTwo(first, second) ==
    LET seeded == [final_channels_map |-> SeedMap(first.channels_map),
                   final_order_list |-> SeedOrder(first.order_list),
                   last_known_channel_index |->
                       InitialAnchor(SeedOrder(first.order_list), second.channels_map)]
        merged == FoldFrom(seeded, second.order_list, second.channels_map, 1)
    IN  [final_channels_map |-> merged.final_channels_map,
         final_order_list |-> merged.final_order_list,
         final_header |-> FoldHeader(SeedHeader(first.header), second.header)]

\* SpecComm reads two files a and b line by line, then merges them as
\* -i a b and as -i b a.
InitComm ==
    /\ pc = "comm"
    /\ src = 1
    /\ nread = 0
    /\ channels_map = EmptyDict
    /\ order_list = <<>>
    /\ header = None
    /\ current_channel_name = None
    /\ final_channels_map = EmptyDict
    /\ final_order_list = <<>>
    /\ final_header = None
    /\ last_known_channel_index = -1
    /\ pos = 1
    /\ output_lines = <<>>
    /\ seen_info = EmptyDict
    /\ attributed = EmptyDict
    /\ first_seen = <<>>
    /\ first_header = None
    /\ order_before = <<>>
    /\ folded = 0
    /\ comm = [phase |-> "a", a |-> ParserInit, b |-> ParserInit, ab |-> <<>>, ba |-> <<>>]
    /\ AuxInit

commFrame ==
    <<pc, src, parserVars, finalVars, last_known_channel_index, pos, output_lines, historyVars,
      auxVars>>

\* lines 12, 21-48: the parser takes the next raw line of file a
CommLineA ==
    /\ comm.phase = "a"
    /\ nread < MaxLines
    /\ \E raw \in RawLines : comm' = [comm EXCEPT !.a = ParseRawLine(comm.a, raw)]
    /\ nread' = nread + 1
    /\ UNCHANGED commFrame

\* line 50: file a is parsed
CommEndA ==
    /\ comm.phase = "a"
    /\ comm' = [comm EXCEPT !.phase = "b"]
    /\ UNCHANGED <<nread, commFrame>>

\* lines 12, 21-48: the parser takes the next raw line of file b
CommLineB ==
    /\ comm.phase = "b"
    /\ nread < MaxLines
    /\ \E raw \in RawLines : comm' = [comm EXCEPT !.b = ParseRawLine(comm.b, raw)]
    /\ nread' = nread + 1
    /\ UNCHANGED commFrame

\* lines 80-139: both runs
CommMerge ==
    /\ comm.phase = "b"
    /\ comm' = [comm EXCEPT !.phase = "merged",
                            !.ab = MergeTwo(comm.a, comm.b),
                            !.ba = MergeTwo(comm.b, comm.a)]
    /\ UNCHANGED <<nread, commFrame>>

NextComm ==
    \/ CommLineA
    \/ CommEndA
    \/ CommLineB
    \/ CommMerge

SpecComm == InitComm /\ [][NextComm]_vars

\* ------------------------------------------ giving the same file twice to -i
\* lines 80-84: the accumulator after the first file
SeedFrom(parsed) ==
    [final_channels_map |-> SeedMap(parsed.channels_map),
     final_order_list |-> SeedOrder(parsed.order_list),
     final_header |-> SeedHeader(parsed.header)]

\* lines 104-139: one pass of the loop over the later files
FoldSource(final, parsed) ==
    LET start == [final_channels_map |-> final.final_channels_map,
                  final_order_list |-> final.final_order_list,
                  last_known_channel_index |->
                      InitialAnchor(final.final_order_list, parsed.channels_map)]
        merged == FoldFrom(start, parsed.order_list, parsed.channels_map, 1)
    IN  [final_channels_map |-> merged.final_channels_map,
         final_order_list |-> merged.final_order_list,
         final_header |-> FoldHeader(final.final_header, parsed.header)]

\* lines 146-155: the lines main() writes for an accumulator
OutputOf(final) ==
    Serialize(final.final_header, final.final_order_list, final.final_channels_map)

\* SpecRefold reads two files a and b line by line, then merges them as
\* -i a, -i a a, -i a b and -i a b b.
InitRefold ==
    /\ pc = "comm"
    /\ src = 1
    /\ nread = 0
    /\ channels_map = EmptyDict
    /\ order_list = <<>>
    /\ header = None
    /\ current_channel_name = None
    /\ final_channels_map = EmptyDict
    /\ final_order_list = <<>>
    /\ final_header = None
    /\ last_known_channel_index = -1
    /\ pos = 1
    /\ output_lines = <<>>
    /\ seen_info = EmptyDict
    /\ attributed = EmptyDict
    /\ first_seen = <<>>
    /\ first_header = None
    /\ order_before = <<>>
    /\ folded = 0
    /\ comm = [phase |-> "a", a |-> ParserInit, b |-> ParserInit,
               seeded |-> <<>>, reseeded |-> <<>>, once |-> <<>>, twice |-> <<>>]
    /\ AuxInit

\* lines 80-139: the four runs
CommRefold ==
    /\ comm.phase = "b"
    /\ comm' = [comm EXCEPT !.phase = "merged",
                            !.seeded = SeedFrom(comm.a),
                            !.reseeded = FoldSource(SeedFrom(comm.a), comm.a),
                            !.once = FoldSource(SeedFrom(comm.a), comm.b),
                            !.twice = FoldSource(FoldSource(SeedFrom(comm.a), comm.b), comm.b)]
    /\ UNCHANGED <<nread, commFrame>>

NextRefold ==
    \/ CommLineA
    \/ CommEndA
    \/ CommLineB
    \/ CommRefold

SpecRefold == InitRefold /\ [][NextRefold]_vars

\* ------------------------------------------------- the parser line by line
\* the lines of the texts of SpecParse and SpecEndings, without line endings
InfoNoComma == <<"#EXTINF:", "1">>
InfoNoName == <<"#EXTINF:", "1", ",">>
InfoTrailing == <<"#EXTINF:", "1", ",", "A", ",">>
Url3 == <<"https://", "3">>

TextLines ==
    {HeaderLine, InfoA1, InfoCD, InfoNoComma, InfoNoName, InfoTrailing, Url1, Url3, Junk}

\* SpecParse is one call of the parser, watched line by line.
InitParse ==
    /\ pc = "text"
    /\ src = 1
    /\ nread = 0
    /\ channels_map = ParserInit.channels_map
    /\ order_list = ParserInit.order_list
    /\ header = ParserInit.header
    /\ current_channel_name = ParserInit.current_channel_name
    /\ final_channels_map = EmptyDict
    /\ final_order_list = <<>>
    /\ final_header = None
    /\ last_known_channel_index = -1
    /\ pos = 1
    /\ output_lines = <<>>
    /\ seen_info = EmptyDict
    /\ attributed = EmptyDict
    /\ first_seen = <<>>
    /\ first_header = None
    /\ order_before = <<>>
    /\ folded = 0
    /\ comm = <<>>
    /\ AuxInit

\* lines 21-48: one pass of the loop over the lines
ReadLine ==
    /\ pc = "text"
    /\ nread < MaxTextLines
    /\ \E raw \in TextLines :
          LET p == ParseRawLine(Parser, raw)
          IN  /\ channels_map' = p.channels_map
              /\ order_list' = p.order_list
              /\ header' = p.header
              /\ current_channel_name' = p.current_channel_name
              /\ lines_read' = Append(lines_read, raw)
    /\ parser_before' = Parser
    /\ nread' = nread + 1
    /\ UNCHANGED <<pc, src, finalVars, last_known_channel_index, pos, output_lines,
                   historyVars, comm, endings, fs>>

\* line 50: the parser returns
Return ==
    /\ pc = "text"
    /\ pc' = "returned"
    /\ UNCHANGED <<src, nread, parserVars, finalVars, last_known_channel_index, pos,
                   output_lines, historyVars, comm, auxVars>>

NextParse ==
    \/ ReadLine
    \/ Return

SpecParse == InitParse /\ [][NextParse]_vars

\* ------------------------------------------- one text, several line endings
EndingLines == {HeaderLine, InfoA1, InfoCD, Url1, Url3, Junk}

\* the lines a text editor would show as blank
BlankLines == {<<>>, <<" ", "\t">>}

\* str.join: the lines with a separator between them
RECURSIVE Join(_, _)
Join(lines, sep) ==
    IF lines = <<>> THEN <<>>
    ELSE IF Len(lines) = 1 THEN lines[1]
    ELSE lines[1] \o sep \o Join(Tail(lines), sep)

\* SpecEndings writes one more line of a text
ReadText ==
    /\ pc = "text"
    /\ nread < MaxTextLines
    /\ \E line \in EndingLines : lines_read' = Append(lines_read, line)
    /\ nread' = nread + 1
    /\ UNCHANGED <<pc, src, parserVars, finalVars, last_known_channel_index, pos,
                   output_lines, historyVars, comm, parser_before, endings, fs>>

\* lines 8-50: the parser on the text with its lines separated by LF, by
\* CRLF, by CR, and by LF with one blank line put in at any one place
ParseEndings ==
    /\ pc = "text"
    /\ pc' = "ended"
    /\ endings' =
          [lf |-> Returned(ParseContent(Join(lines_read, <<"\n">>))),
           crlf |-> Returned(ParseContent(Join(lines_read, <<"\r", "\n">>))),
           cr |-> Returned(ParseContent(Join(lines_read, <<"\r">>))),
           blank |-> {Returned(ParseContent(Join(ListInsert(lines_read, k, b), <<"\n">>))) :
                          k \in 0..Len(lines_read), b \in BlankLines}]
    /\ UNCHANGED <<src, nread, parserVars, finalVars, last_known_channel_index, pos,
                   output_lines, historyVars, comm, lines_read, parser_before, fs>>

NextEndings ==
    \/ ReadText
    \/ ParseEndings

SpecEndings == InitParse /\ [][NextEndings]_vars

\* ------------------------------------------ url_sortergr: safe_write_output
\* a path is its components; the working directory holds the input file
\* in.m3u, a symbolic link link.m3u to it, and no out.m3u
InputPaths == {<<"in.m3u">>, <<".", "in.m3u">>}
OutputPaths == {<<"in.m3u">>, <<".", "in.m3u">>, <<"link.m3u">>, <<"out.m3u">>}

\* os.path.abspath: joins the working directory and drops the "." components;
\* it does not look at the file system
Abspath(path) == <<"cwd">> \o SelectSeq(path, LAMBDA c : c # ".")

\* the file a path resolves to
RealPath(path) ==
    [i \in DOMAIN Abspath(path) |->
        IF Abspath(path)[i] = "link.m3u" THEN "in.m3u" ELSE Abspath(path)[i]]

\* lines 495-497
IsSameFile(input_path, output_path) == Abspath(input_path) = Abspath(output_path)

\* the content of a file is the sequence of its lines
Original == <<"o1">>
Absent == <<"absent">>
OutLines == {"n1", "n2"}
LinesUpTo(n) == UNION {[1..k -> OutLines] : k \in 0..n}

\* the path tempfile.mkstemp returns
TempPath == <<"tmp">>

\* SpecWrite is one call of safe_write_output by main(), with every call to
\* the operating system free to fail.
InitWrite ==
    /\ pc = "try"
    /\ src = 1
    /\ nread = 0
    /\ channels_map = EmptyDict
    /\ order_list = <<>>
    /\ header = None
    /\ current_channel_name = None
    /\ final_channels_map = EmptyDict
    /\ final_order_list = <<>>
    /\ final_header = None
    /\ last_known_channel_index = -1
    /\ pos = 1
    /\ output_lines = <<>>
    /\ seen_info = EmptyDict
    /\ attributed = EmptyDict
    /\ first_seen = <<>>
    /\ first_header = None
    /\ order_before = <<>>
    /\ folded = 0
    /\ comm = <<>>
    /\ lines_read = <<>>
    /\ parser_before = ParserInit
    /\ endings = <<>>
    /\ \E lines \in LinesUpTo(MaxOutLines), input_path \in InputPaths, output_path \in OutputPaths :
          fs = [lines |-> lines,
                input_path |-> input_path,
                output_path |-> output_path,
                is_same_file |-> IsSameFile(input_path, output_path),
                temp_path |-> None,
                out_f |-> "none",
                target |-> IF RealPath(output_path) = RealPath(input_path)
                           THEN Original ELSE Absent,
                temp |-> Absent,
                copied |-> 0,
                result |-> <<>>]

writeFrame ==
    <<src, nread, parserVars, finalVars, last_known_channel_index, pos, output_lines,
      historyVars, comm, lines_read, parser_before, endings>>

\* lines 504-511: the temporary file is created next to the output file
Mkstemp ==
    /\ pc = "try"
    /\ fs.is_same_file
    /\ fs' = [fs EXCEPT !.temp = <<>>, !.temp_path = TempPath]
    /\ pc' = "fdopen"
    /\ UNCHANGED writeFrame

\* line 514
Fdopen ==
    /\ pc = "fdopen"
    /\ fs' = [fs EXCEPT !.out_f = "temp"]
    /\ pc' = "write"
    /\ UNCHANGED writeFrame

\* line 516: open(output_path, 'w') truncates the file the path resolves to
OpenOutput ==
    /\ pc = "try"
    /\ ~fs.is_same_file
    /\ fs' = [fs EXCEPT !.out_f = "target", !.target = <<>>]
    /\ pc' = "write"
    /\ UNCHANGED writeFrame

\* lines 520-521: one line goes to the open file
WriteLine ==
    /\ pc = "write"
    /\ LET n == Len(IF fs.out_f = "temp" THEN fs.temp ELSE fs.target)
       IN  /\ n < Len(fs.lines)
           /\ fs' = IF fs.out_f = "temp"
                    THEN [fs EXCEPT !.temp = Append(fs.temp, fs.lines[n + 1])]
                    ELSE [fs EXCEPT !.target = Append(fs.target, fs.lines[n + 1])]
    /\ UNCHANGED <<pc, writeFrame>>

\* lines 519, 525, 537: the file is closed; a direct write returns here
CloseFile ==
    /\ pc = "write"
    /\ Len(IF fs.out_f = "temp" THEN fs.temp ELSE fs.target) = Len(fs.lines)
    /\ IF fs.is_same_file
       THEN /\ fs' = [fs EXCEPT !.out_f = "none"]
            /\ pc' = "replace"
       ELSE /\ fs' = [fs EXCEPT !.out_f = "none",
                                !.result = [success |-> TRUE, temp_path |-> None]]
            /\ pc' = "returned"
    /\ UNCHANGED writeFrame

\* lines 527-529, 537: os.replace puts the temporary file in place of the target
ReplaceTarget ==
    /\ pc = "replace"
    /\ fs' = [fs EXCEPT !.target = fs.temp, !.temp = Absent, !.temp_path = None,
                        !.result = [success |-> TRUE, temp_path |-> None]]
    /\ pc' = "returned"
    /\ UNCHANGED writeFrame

\* lines 530-531: os.replace raised
ReplaceFails ==
    /\ pc = "replace"
    /\ pc' = "move"
    /\ UNCHANGED <<fs, writeFrame>>

\* lines 532-533, 537: shutil.move, its os.rename succeeding
MoveRenames ==
    /\ pc = "move"
    /\ fs' = [fs EXCEPT !.target = fs.temp, !.temp = Absent, !.temp_path = None,
                        !.result = [success |-> TRUE, temp_path |-> None]]
    /\ pc' = "returned"
    /\ UNCHANGED writeFrame

\* line 532: shutil.move, its os.rename failing: it opens the target for
\* writing, which truncates it, and copies the temporary file into it
MoveCopies ==
    /\ pc = "move"
    /\ fs' = [fs EXCEPT !.target = <<>>, !.copied = 0]
    /\ pc' = "copy"
    /\ UNCHANGED writeFrame

\* line 532: shutil.move copies one more piece
CopyLine ==
    /\ pc = "copy"
    /\ fs.copied < Len(fs.temp)
    /\ fs' = [fs EXCEPT !.target = Append(fs.target, fs.temp[fs.copied + 1]),
                        !.copied = fs.copied + 1]
    /\ UNCHANGED <<pc, writeFrame>>

\* lines 532-533, 537: shutil.move unlinks the temporary file after the copy
CopyDone ==
    /\ pc = "copy"
    /\ fs.copied = Len(fs.temp)
    /\ fs' = [fs EXCEPT !.temp = Absent, !.temp_path = None,
                        !.result = [success |-> TRUE, temp_path |-> None]]
    /\ pc' = "returned"
    /\ UNCHANGED writeFrame

\* lines 539-541: a call of the try block raised: mkstemp, fdopen, open,
\* write, the close at the end of the with block, or shutil.move before or
\* during its copy
Raise ==
    /\ pc \in {"try", "fdopen", "write", "move", "copy"}
    /\ fs' = [fs EXCEPT !.out_f = "none",
                        !.result = [success |-> FALSE, temp_path |-> fs.temp_path]]
    /\ pc' = "returned"
    /\ UNCHANGED writeFrame

\* main lines 661-666 and cleanup_temp_file (lines 542-549): after a failure the temporary
\* file is unlinked if it is there; an unlink that fails is only logged
CleanupTempFile ==
    /\ pc = "returned"
    /\ ~fs.result.success
    /\ \E unlinked \in BOOLEAN :
          fs' = IF fs.result.temp_path # None /\ fs.temp # Absent /\ unlinked
                THEN [fs EXCEPT !.temp = Absent]
                ELSE fs
    /\ pc' = IF fs.result.temp_path # None /\ fs.temp # Absent /\ fs'.temp # Absent
             THEN "exit_unclean" ELSE "exit"
    /\ UNCHANGED writeFrame

\* main lines 661-663: after a success main() goes on to its report
Succeed ==
    /\ pc = "returned"
    /\ fs.result.success
    /\ pc' = "exit"
    /\ UNCHANGED <<fs, writeFrame>>

NextWrite ==
    \/ Mkstemp
    \/ Fdopen
    \/ OpenOutput
    \/ WriteLine
    \/ CloseFile
    \/ ReplaceTarget
    \/ ReplaceFails
    \/ MoveRenames
    \/ MoveCopies
    \/ CopyLine
    \/ CopyDone
    \/ Raise
    \/ CleanupTempFile
    \/ Succeed

SpecWrite == InitWrite /\ [][NextWrite]_vars

\* ------------------------------------------------------------------- claims
NoDuplicates(s) == \A i, j \in 1..Len(s) : i # j => s[i] # s[j]

\* a is b with some elements left out
RECURSIVE IsSubseq(_, _)
IsSubseq(a, b) ==
    IF a = <<>> THEN TRUE
    ELSE IF b = <<>> THEN FALSE
    ELSE IF Head(a) = Head(b) THEN IsSubseq(Tail(a), Tail(b))
    ELSE IsSubseq(a, Tail(b))

\* the text after the last comma of a line, None when the line has no comma
AfterLastComma(line) ==
    LET commas == {i \in 1..Len(line) : line[i] = ","}
    IN  IF commas = {} THEN None
        ELSE LET i == CHOOSE j \in commas : \A k \in commas : k <= j
             IN  SubSeq(line, i + 1, Len(line))

\* the identity is in the file being parsed or folded and has not been folded yet
Pending(id) ==
    /\ pc \in {"parse", "fold"}
    /\ id \in DOMAIN channels_map
    /\ pc = "fold" => \E i \in pos..Len(order_list) : order_list[i] = id

\* the header line of the output, None when it has none
OutputHeader ==
    IF output_lines # <<>> /\ StartsWith(output_lines[1], "#EXTM3U")
    THEN output_lines[1] ELSE None

\* C1: folding a source of order [X, A, Y, Z, B] into an accumulator of order
\* [A, B] gives the order [X, A, Y, Z, B].
C1_ContiguousBlock ==
    (pc = "done" /\ order_before = <<<<"A">>, <<"B">>>>
        /\ order_list = <<<<"X">>, <<"A">>, <<"Y">>, <<"Z">>, <<"B">>>>)
    => final_order_list = <<<<"X">>, <<"A">>, <<"Y">>, <<"Z">>, <<"B">>>>

\* C2: a first source of channel B alone and a second source of order [A, B]
\* give the order [A, B]; a new channel that comes before every known channel
\* of the incoming source is placed ahead of them.
C2_FrontInsertion ==
    (pc = "fold" /\ pos > Len(order_list) /\ order_before = <<<<"B">>>>
        /\ order_list = <<<<"A">>, <<"B">>>>)
    => final_order_list = <<<<"A">>, <<"B">>>>

\* C3: no identity is twice in the final order, after any step of any fold and
\* in the order the output is written from.
C3_NoDuplicateIdentities == NoDuplicates(final_order_list)

C3_Witness ==
    /\ pc = "done"
    /\ folded = 3
    /\ Len(final_order_list) = 3
    /\ \E i \in 1..Len(order_list) : order_list[i] \in Range(order_before)

\* C4: the accumulator's header, and the header line of the output, is the
\* first header line of the first source, and there is none when the first
\* source has none, whatever the later sources hold.
C4_HeaderFromFirstSource ==
    /\ folded >= 1 => final_header = first_header
    /\ pc = "done" => OutputHeader = first_header

C4_Witness ==
    /\ pc = "done"
    /\ folded >= 2
    /\ first_header = None
    /\ header # None
    /\ final_order_list # <<>>

\* C5: merging a then b and merging b then a give the same identities and,
\* for each identity, the same URL set.
C5_UrlSetsCommute ==
    comm # <<>> /\ comm.phase = "merged" =>
        /\ DOMAIN comm.ab.final_channels_map = DOMAIN comm.ba.final_channels_map
        /\ \A id \in DOMAIN comm.ab.final_channels_map :
              comm.ab.final_channels_map[id].urls = comm.ba.final_channels_map[id].urls

C5_Witness ==
    /\ comm # <<>>
    /\ comm.phase = "merged"
    /\ comm.ab.final_order_list # comm.ba.final_order_list
    /\ \E id \in DOMAIN comm.a.channels_map \cap DOMAIN comm.b.channels_map :
          /\ comm.a.channels_map[id].urls # {}
          /\ comm.b.channels_map[id].urls # {}
          /\ comm.a.channels_map[id].urls # comm.b.channels_map[id].urls

\* C6: a run that merges one source alone ends with that source's channels in
\* their order of first appearance, each with the set of the URLs attributed
\* to it, and writes them so.
C6_SingleSource ==
    pc = "done" /\ folded = 1 =>
        /\ final_order_list = first_seen
        /\ DOMAIN final_channels_map = Range(first_seen)
        /\ \A id \in DOMAIN final_channels_map : final_channels_map[id].urls = attributed[id]
        /\ output_lines =
              Serialize(first_header, first_seen,
                        [id \in Range(first_seen) |->
                            [info |-> seen_info[id], urls |-> attributed[id]]])

C6_Witness ==
    /\ pc = "done"
    /\ folded = 1
    /\ Len(first_seen) = 2
    /\ nread = 5
    /\ \E id \in DOMAIN attributed : attributed[id] # {}

\* C7: the metadata line held for an identity (by the parser for a channel of
\* the file in hand, by the accumulator otherwise) is the last metadata line
\* read for that identity so far.
C7_LastMetadataLine ==
    /\ \A id \in DOMAIN seen_info :
          IF Pending(id) THEN channels_map[id].info = seen_info[id]
          ELSE id \in DOMAIN final_channels_map /\ final_channels_map[id].info = seen_info[id]
    /\ DOMAIN final_channels_map \subseteq DOMAIN seen_info

C7_Witness ==
    /\ pc = "next"
    /\ folded = 2
    /\ <<"A">> \in Range(order_before)
    /\ <<"A">> \in DOMAIN channels_map
    /\ channels_map[<<"A">>].info = InfoA2
    /\ final_channels_map[<<"A">>].info = InfoA2
    /\ final_channels_map[<<"A">>].urls # channels_map[<<"A">>].urls

\* C8: a URL attributed to an identity is in that identity's URL set from then
\* on (the parser's for a channel of the file in hand, the accumulator's
\* otherwise), and between files and at the end the accumulator's set of each
\* identity is the union of what the parser attributed to it in every file.
C8_UrlsAppendOnly ==
    /\ \A id \in DOMAIN attributed :
          attributed[id] \subseteq
              (IF id \in DOMAIN final_channels_map THEN final_channels_map[id].urls ELSE {})
              \cup (IF Pending(id) THEN channels_map[id].urls ELSE {})
    /\ pc \in {"next", "open", "done"} =>
          /\ DOMAIN final_channels_map = DOMAIN attributed
          /\ \A id \in DOMAIN attributed : final_channels_map[id].urls = attributed[id]

C8_Witness ==
    /\ pc = "done"
    /\ folded = 2
    /\ \E id \in DOMAIN channels_map \cap DOMAIN final_channels_map :
          /\ Cardinality(final_channels_map[id].urls) = 2
          /\ Cardinality(channels_map[id].urls) = 1

\* C9: every step leaves the final order a subsequence of the new final order,
\* and folding a channel the accumulator already has leaves it as it was.
C9_OrderPreserved ==
    [][/\ IsSubseq(final_order_list, final_order_list')
       /\ (pc = "fold" /\ pos <= Len(order_list) /\ pos' = pos + 1
              /\ order_list[pos] \in DOMAIN final_channels_map)
          => final_order_list' = final_order_list]_vars

C9_Witness ==
    /\ pc = "fold"
    /\ pos > Len(order_list)
    /\ Len(order_before) = 2
    /\ Len(final_order_list) = 3
    /\ \E i \in 1..Len(order_list) : order_list[i] \in Range(order_before)

\* C10: the identity of a metadata line is the text after the last comma of
\* the line, stripped.
C10_NameAfterLastComma ==
    pc = "parse" /\ current_channel_name # None =>
        current_channel_name = Strip(AfterLastComma(channels_map[current_channel_name].info))

\* the number of lines of output_lines before the block of the k-th identity
RECURSIVE LinesBefore(_)
LinesBefore(k) ==
    IF k = 1 THEN (IF final_header # None THEN 1 ELSE 0)
    ELSE LinesBefore(k - 1) + 1
         + Cardinality(final_channels_map[final_order_list[k - 1]].urls)

\* C12: the output is the header when there is one, then for each identity of
\* the final order, in that order, its metadata line and its URLs, each once,
\* in ascending string order; nothing else.
C12_OutputLayout ==
    pc = "done" =>
        /\ Len(output_lines) = LinesBefore(Len(final_order_list) + 1)
        /\ final_header # None => output_lines[1] = final_header
        /\ \A k \in 1..Len(final_order_list) :
              LET id == final_order_list[k]
                  at == LinesBefore(k) + 1
                  n == Cardinality(final_channels_map[id].urls)
              IN  /\ output_lines[at] = final_channels_map[id].info
                  /\ {output_lines[at + i] : i \in 1..n} = final_channels_map[id].urls
                  /\ \A i \in 1..(n - 1) : StrLess(output_lines[at + i], output_lines[at + i + 1])

C12_Witness ==
    /\ pc = "done"
    /\ final_header # None
    /\ Len(final_order_list) = 2
    /\ Cardinality(final_channels_map[final_order_list[1]].urls) = 2
    /\ Len(output_lines) = 5

\* C18: the identities of the final order are the keys of the final map in
\* every state, and once the files read are merged they are the identities
\* the parser found in them.
C18_OrderMatchesRecords ==
    /\ Range(final_order_list) = DOMAIN final_channels_map
    /\ pc \in {"next", "done"} => DOMAIN final_channels_map = DOMAIN seen_info

C18_Witness ==
    /\ pc = "done"
    /\ folded = 3
    /\ Cardinality(DOMAIN final_channels_map) = 3
    /\ Len(order_before) = 2
    /\ Len(order_list) = 2

\* the fold of the file in hand has gone through all its channels
FoldComplete ==
    \/ pc \in {"next", "done"} /\ folded >= 2
    \/ pc = "fold" /\ pos > Len(order_list)

\* C14: at the end of a fold, the new channels that followed a known channel
\* X without a break in the incoming source stand right behind X in the final
\* order, in incoming order, wherever X stands by then; accumulator
\* [News, Sports] and source [Sports, Movies] give [News, Sports, Movies]
\* (here A, B and X).
C14_BlockAfterAnchor ==
    FoldComplete =>
        /\ \A i \in 1..Len(order_list), j \in 1..Len(order_list) :
              (/\ i < j
               /\ order_list[i] \in Range(order_before)
               /\ \A k \in (i + 1)..j : order_list[k] \notin Range(order_before))
              => ListIndex(final_order_list, order_list[j])
                     = ListIndex(final_order_list, order_list[i]) + (j - i)
        /\ (order_before = <<<<"A">>, <<"B">>>> /\ order_list = <<<<"B">>, <<"X">>>>)
              => final_order_list = <<<<"A">>, <<"B">>, <<"X">>>>

C14_Witness ==
    /\ FoldComplete
    /\ \E i \in 1..(Len(order_list) - 2) :
          /\ order_list[i] \in Range(order_before)
          /\ order_list[i + 1] \notin Range(order_before)
          /\ order_list[i + 2] \notin Range(order_before)
          /\ ListIndex(final_order_list, order_list[i]) # ListIndex(order_before, order_list[i])

\* C15: when the accumulator has none of the channels of the incoming source,
\* the fold puts them all, in incoming order, in front of the channels the
\* accumulator had.
C15_NoAnchorGoesFirst ==
    (FoldComplete /\ Range(order_list) \cap Range(order_before) = {})
    => final_order_list = order_list \o order_before

C15_Witness ==
    /\ FoldComplete
    /\ Range(order_list) \cap Range(order_before) = {}
    /\ Len(order_list) = 3
    /\ Len(order_before) = 2
    /\ pc = "done"

\* C19: folding a source again right after it was folded, or right after it
\* seeded the accumulator, changes neither the header, nor the order, nor any
\* info line, nor any URL set, so the run writes the same lines.
C19_RefoldChangesNothing ==
    comm # <<>> /\ comm.phase = "merged" =>
        /\ comm.twice.final_header = comm.once.final_header
        /\ comm.twice.final_order_list = comm.once.final_order_list
        /\ comm.twice.final_channels_map = comm.once.final_channels_map
        /\ OutputOf(comm.twice) = OutputOf(comm.once)
        /\ comm.reseeded.final_header = comm.seeded.final_header
        /\ comm.reseeded.final_order_list = comm.seeded.final_order_list
        /\ comm.reseeded.final_channels_map = comm.seeded.final_channels_map
        /\ OutputOf(comm.reseeded) = OutputOf(comm.seeded)

C19_Witness ==
    /\ comm # <<>>
    /\ comm.phase = "merged"
    /\ comm.a.header # None
    /\ \E id \in DOMAIN comm.a.channels_map \cap DOMAIN comm.b.channels_map :
          comm.a.channels_map[id].info # comm.b.channels_map[id].info
    /\ \E id \in DOMAIN comm.b.channels_map \ DOMAIN comm.a.channels_map :
          comm.b.channels_map[id].urls # {}

\* the kind of a stripped line, as lines 22, 27 and 43 tell them apart
IsHeaderLine(line) == StartsWith(line, "#EXTM3U")
IsInfoLine(line) == StartsWith(line, "#EXTINF:")
IsUrlLine(line) == StartsWith(line, "http://") \/ StartsWith(line, "https://")
IsOtherLine(line) == line # <<>> /\ ~IsHeaderLine(line) /\ ~IsInfoLine(line) /\ ~IsUrlLine(line)

\* the i-th line the parser has taken, stripped
LineRead(i) == Strip(lines_read[i])
LastRead == LineRead(Len(lines_read))

\* a metadata line without a display name: no comma, or nothing after the last one
IsNameless(line) == IsInfoLine(line) /\ Strip(AfterLastComma(line)) = None

\* C11: a metadata line without a display name creates no record, adds
\* nothing to the order and leaves the parser idle; a URL line read after it,
\* with no named metadata line between them, is attributed to no channel.
C11_NamelessMetadataIdle ==
    lines_read # <<>> =>
        /\ IsNameless(LastRead) =>
              /\ channels_map = parser_before.channels_map
              /\ order_list = parser_before.order_list
              /\ current_channel_name = None
        /\ (/\ IsUrlLine(LastRead)
            /\ \E i \in 1..(Len(lines_read) - 1) :
                  /\ IsNameless(LineRead(i))
                  /\ \A j \in (i + 1)..(Len(lines_read) - 1) :
                        IsInfoLine(LineRead(j)) => IsNameless(LineRead(j)))
           => channels_map = parser_before.channels_map

C16_OtherClearsHeaderKeeps ==
    lines_read # <<>> =>
        /\ IsOtherLine(LastRead) =>
              /\ current_channel_name = None
              /\ Returned(Parser) = Returned(parser_before)
        /\ IsHeaderLine(LastRead) =>
              /\ current_channel_name = parser_before.current_channel_name
              /\ channels_map = parser_before.channels_map
              /\ order_list = parser_before.order_list
        /\ (/\ IsUrlLine(LastRead)
            /\ \E i \in 1..(Len(lines_read) - 1) :
                  /\ IsOtherLine(LineRead(i))
                  /\ \A j \in (i + 1)..(Len(lines_read) - 1) : ~IsInfoLine(LineRead(j)))
           => Returned(Parser) = Returned(parser_before)
        /\ \A i \in 1..(Len(lines_read) - 1) :
              (/\ IsUrlLine(LastRead)
               /\ IsInfoLine(LineRead(i))
               /\ ChannelName(LineRead(i)) # None
               /\ \A j \in (i + 1)..(Len(lines_read) - 1) :
                     IsHeaderLine(LineRead(j)) \/ IsUrlLine(LineRead(j)))
              => /\ current_channel_name = ChannelName(LineRead(i))
                 /\ LastRead \in channels_map[ChannelName(LineRead(i))].urls

C16_Witness ==
    /\ pc = "text"
    /\ Len(lines_read) = 5
    /\ IsInfoLine(LineRead(1))
    /\ IsHeaderLine(LineRead(2))
    /\ IsUrlLine(LineRead(3))
    /\ IsOtherLine(LineRead(4))
    /\ IsUrlLine(LineRead(5))
    /\ LineRead(5) # LineRead(3)
    /\ order_list = <<<<"A">>>>
    /\ channels_map[<<"A">>].urls = {LineRead(3)}
    /\ current_channel_name = None

\* C17: when the output path resolves to the input file, that file holds at
\* every moment either its original content or the whole new content; a call
\* that fails leaves the original content, reports the temporary file it
\* made, and that file is gone once cleanup_temp_file has unlinked it.
C17_NeverPartiallyWritten ==
    (fs # <<>> /\ RealPath(fs.output_path) = RealPath(fs.input_path)) =>
        /\ fs.target \in {Original, fs.lines}
        /\ (fs.result # <<>> /\ ~fs.result.success) =>
              /\ fs.target = Original
              /\ fs.temp # Absent => fs.result.temp_path = TempPath
        /\ (fs.result # <<>> /\ fs.result.success) => fs.target = fs.lines
        /\ pc = "exit" => fs.temp = Absent

====
